---- MODULE Spec2Model ----
(***************************************************************************)
(* Model of backend/lambda/common/image_optimizer.py: the ImageOptimizer    *)
(* class (dimension calculation, per-profile encode, multi-profile driver,  *)
(* storage upload, end-to-end pipeline).                                    *)
(*                                                                          *)
(* Python's float is IEEE 754 binary64.  calculate_resize_dimensions        *)
(* divides and multiplies floats and truncates the result, so the model     *)
(* carries an exact binary64 arithmetic (round to nearest, ties to even)    *)
(* over arbitrary-precision naturals held as limb sequences.                *)
(***************************************************************************)
EXTENDS Integers, Sequences, FiniteSets, TLC

(***************************************************************************)
(* Arbitrary-precision naturals: little-endian sequences of limbs in        *)
(* 0..LimbBase-1 without high zero limbs (<<>> is zero).  LimbBase is       *)
(* 2^LimbBits, small enough that a limb product fits TLC's 32-bit          *)
(* integers.                                                                *)
(***************************************************************************)
Min(a, b) == IF a <= b THEN a ELSE b

Max(a, b) == IF a >= b THEN a ELSE b

RECURSIVE Pow2(_)
Pow2(n) == IF n = 0 THEN 1 ELSE 2 * Pow2(n - 1)

RECURSIVE BitLen(_)
BitLen(n) == IF n = 0 THEN 0 ELSE 1 + BitLen(n \div 2)

LimbBase == 2^15

LimbBits == BitLen(LimbBase) - 1

RECURSIVE BigNorm(_)
BigNorm(a) ==
    IF a = <<>> THEN <<>>
    ELSE IF a[Len(a)] = 0 THEN BigNorm(SubSeq(a, 1, Len(a) - 1))
    ELSE a

RECURSIVE BigFromNat(_)
BigFromNat(n) ==
    IF n = 0 THEN <<>>
    ELSE <<n % LimbBase>> \o BigFromNat(n \div LimbBase)

RECURSIVE BigToNat(_)
BigToNat(a) ==
    IF a = <<>> THEN 0
    ELSE a[1] + LimbBase * BigToNat(Tail(a))

\* compare from the most significant limb down: -1, 0 or 1
RECURSIVE BigCmpFrom(_, _, _)
BigCmpFrom(a, b, i) ==
    IF i = 0 THEN 0
    ELSE IF a[i] < b[i] THEN -1
    ELSE IF a[i] > b[i] THEN 1
    ELSE BigCmpFrom(a, b, i - 1)

BigCmp(a, b) ==
    IF Len(a) < Len(b) THEN -1
    ELSE IF Len(a) > Len(b) THEN 1
    ELSE BigCmpFrom(a, b, Len(a))

BigLimb(a, i) == IF i <= Len(a) THEN a[i] ELSE 0

RECURSIVE BigAddFrom(_, _, _, _)
BigAddFrom(a, b, i, carry) ==
    IF i > Len(a) /\ i > Len(b)
    THEN IF carry = 0 THEN <<>> ELSE <<carry>>
    ELSE LET s == BigLimb(a, i) + BigLimb(b, i) + carry
         IN <<s % LimbBase>> \o BigAddFrom(a, b, i + 1, s \div LimbBase)

BigAdd(a, b) == BigAddFrom(a, b, 1, 0)

\* a - b for a >= b
RECURSIVE BigSubFrom(_, _, _, _)
BigSubFrom(a, b, i, borrow) ==
    IF i > Len(a) THEN <<>>
    ELSE LET d == a[i] - BigLimb(b, i) - borrow
         IN IF d < 0
            THEN <<d + LimbBase>> \o BigSubFrom(a, b, i + 1, 1)
            ELSE <<d>> \o BigSubFrom(a, b, i + 1, 0)

BigSub(a, b) == BigNorm(BigSubFrom(a, b, 1, 0))

\* a * d for one limb d
RECURSIVE BigMulLimbFrom(_, _, _, _)
BigMulLimbFrom(a, d, i, carry) ==
    IF i > Len(a)
    THEN IF carry = 0 THEN <<>> ELSE <<carry>>
    ELSE LET p == a[i] * d + carry
         IN <<p % LimbBase>> \o BigMulLimbFrom(a, d, i + 1, p \div LimbBase)

BigMulLimb(a, d) == BigNorm(BigMulLimbFrom(a, d, 1, 0))

RECURSIVE BigMul(_, _)
BigMul(a, b) ==
    IF b = <<>> \/ a = <<>> THEN <<>>
    ELSE BigAdd(BigMulLimb(a, b[1]),
                LET r == BigMul(a, Tail(b))
                IN IF r = <<>> THEN <<>> ELSE <<0>> \o r)

BigBitLen(a) ==
    IF a = <<>> THEN 0 ELSE LimbBits * (Len(a) - 1) + BitLen(a[Len(a)])

RECURSIVE Zeros(_)
Zeros(n) == IF n = 0 THEN <<>> ELSE <<0>> \o Zeros(n - 1)

\* a * 2^n
BigShl(a, n) ==
    IF a = <<>> THEN <<>>
    ELSE Zeros(n \div LimbBits) \o BigMulLimb(a, Pow2(n % LimbBits))

\* floor(a / 2^n)
BigShr(a, n) ==
    LET drop == n \div LimbBits
        k    == n % LimbBits
        b    == IF drop >= Len(a) THEN <<>> ELSE SubSeq(a, drop + 1, Len(a))
    IN BigNorm([i \in 1..Len(b) |->
                  (b[i] \div Pow2(k))
                  + (BigLimb(b, i + 1) % Pow2(k)) * Pow2(LimbBits - k)])

(***************************************************************************)
(* IEEE 754 binary64, restricted to the positive normal numbers the         *)
(* dimension arithmetic produces: a float is [m, e] with value m * 2^e and  *)
(* 2^(Precision-1) <= m < 2^Precision.                                      *)
(***************************************************************************)
Precision == 53

\* The float nearest to (n + f) * 2^e, where n > 0 is a natural and 0 <= f < 1
\* is a fraction known only as zero (sticky = FALSE) or nonzero (TRUE);
\* ties go to the even significand.  A nonzero fraction needs n to carry at
\* least one bit beyond the precision.
FloatRound(n, e, sticky) ==
    LET len == BigBitLen(n)
    IN IF len <= Precision
       THEN [m |-> BigShl(n, Precision - len), e |-> e - (Precision - len)]
       ELSE LET k    == len - Precision
                q    == BigShr(n, k)
                rem  == BigSub(n, BigShl(q, k))
                half == BigShl(<<1>>, k - 1)
                c    == BigCmp(rem, half)
                odd  == q[1] % 2 = 1
                up   == \/ c = 1
                        \/ c = 0 /\ (sticky \/ odd)
                r    == IF up THEN BigAdd(q, <<1>>) ELSE q
            IN IF BigBitLen(r) > Precision
               THEN [m |-> BigShr(r, 1), e |-> e + k + 1]
               ELSE [m |-> r, e |-> e + k]

\* float(n) for an int n >= 1
FloatFromInt(n) == FloatRound(BigFromNat(n), 0, FALSE)

\* x * y
FloatMul(x, y) == FloatRound(BigMul(x.m, y.m), x.e + y.e, FALSE)

\* One step of long division in base LimbBase: the next quotient limb of
\* st.r / d (st.r < d, the top limb of d at least LimbBase / 2), appended to
\* st.q.  The limb is estimated from the two top limbs of the remainder and
\* the top limb of the divisor, which overshoots by at most 2.
DivStep(st, d) ==
    LET r   == IF st.r = <<>> THEN <<>> ELSE <<0>> \o st.r
        n   == Len(d)
        est == Min(LimbBase - 1,
                   (BigLimb(r, n + 1) * LimbBase + BigLimb(r, n)) \div d[n])
        k   == CHOOSE c \in Max(0, est - 2)..est :
                   /\ BigCmp(BigMulLimb(d, c), r) <= 0
                   /\ BigCmp(BigMulLimb(d, c + 1), r) > 0
    IN [r |-> BigSub(r, BigMulLimb(d, k)), q |-> BigNorm(<<k>> \o st.q)]

RECURSIVE LongDiv(_, _, _)
LongDiv(st, d, limbs) ==
    IF limbs = 0 THEN st ELSE LongDiv(DivStep(st, d), d, limbs - 1)

\* the limbs that hold a significand, and the shift that fills them
MantLimbs == (Precision + LimbBits - 1) \div LimbBits

NormShift == MantLimbs * LimbBits - Precision

\* x / y: the quotient of the significands to MantLimbs limbs after the
\* point, the remainder as the sticky bit
FloatDiv(x, y) ==
    LET n == BigShl(x.m, NormShift)
        d == BigShl(y.m, NormShift)
        first == BigCmp(n, d) >= 0
        st == LongDiv([r |-> IF first THEN BigSub(n, d) ELSE n,
                       q |-> IF first THEN <<1>> ELSE <<>>],
                      d, MantLimbs)
    IN FloatRound(st.q, x.e - y.e - MantLimbs * LimbBits, st.r # <<>>)

\* int(x): truncation toward zero
FloatTrunc(x) ==
    IF x.e >= 0 THEN BigToNat(BigShl(x.m, x.e))
    ELSE BigToNat(BigShr(x.m, 0 - x.e))

(***************************************************************************)
(* ImageOptimizer.calculate_resize_dimensions: <<new_width, new_height>>    *)
(* for original dimensions >= 1.                                            *)
(***************************************************************************)
calculate_resize_dimensions(original_width, original_height, max_dimension) ==
    LET aspect_ratio == FloatDiv(FloatFromInt(original_width),
                                 FloatFromInt(original_height))
    IN IF original_width > original_height
       THEN LET new_width == Min(original_width, max_dimension)
                new_height == FloatTrunc(FloatDiv(FloatFromInt(new_width),
                                                  aspect_ratio))
            IN <<new_width, new_height>>
       ELSE LET new_height == Min(original_height, max_dimension)
                new_width == FloatTrunc(FloatMul(FloatFromInt(new_height),
                                                 aspect_ratio))
            IN <<new_width, new_height>>

(***************************************************************************)
(* Bounds of the model.                                                     *)
(***************************************************************************)
MaxSmallDim == 3

MaxSmallCap == 2

MaxKeyLen == 4

\* image widths and heights: the small ones, and ones around the caps
Dims == (1..MaxSmallDim) \cup {49, 200, 201, 1000, 1920, 4000}

(***************************************************************************)
(* ImageOptimizer.SIZES, in the dict's insertion order.                     *)
(***************************************************************************)
SizeNames == <<"thumbnail", "preview", "full">>

SIZES ==
    [thumbnail |-> [max_dimension |-> 200, quality |-> 80, format |-> "JPEG"],
     preview   |-> [max_dimension |-> 800, quality |-> 85, format |-> "JPEG"],
     full      |-> [max_dimension |-> 1920, quality |-> 90, format |-> "JPEG"]]

Profiles == DOMAIN SIZES

Caps == {SIZES[p].max_dimension : p \in Profiles} \cup (1..MaxSmallCap)

\* calculate_resize_dimensions tabulated over the dimensions and caps of the
\* model, so that each triple is computed once
ResizeTable ==
    {<<t, calculate_resize_dimensions(t[1], t[2], t[3])>> : t \in Dims \X Dims \X Caps}

Resized(original_width, original_height, max_dimension) ==
    (CHOOSE p \in ResizeTable :
        p[1] = <<original_width, original_height, max_dimension>>)[2]

(***************************************************************************)
(* Image bytes.  A source object is [valid, size, mode, width, height]:     *)
(* whether Image.open decodes it, its length in bytes, and what the decoder *)
(* reports.  Bytes that decode are not empty.                               *)
(***************************************************************************)
Modes == {"RGB", "RGBA", "P", "L"}

NoImage(size) ==
    [valid |-> FALSE, size |-> size, mode |-> "none", width |-> 0, height |-> 0]

SourceImages ==
    {NoImage(n) : n \in 0..1}
    \cup [valid : {TRUE}, size : {1}, mode : {"RGB"}, width : Dims, height : Dims]
    \cup [valid : {TRUE}, size : {1}, mode : Modes \ {"RGB"},
          width : {1, 4000}, height : {3, 1000}]

\* the sources the multi-profile operations are run on
PipelineImages ==
    {NoImage(n) : n \in 0..1}
    \cup {[valid |-> TRUE, size |-> 1, mode |-> d[1], width |-> d[2], height |-> d[3]] :
            d \in {<<"RGB", 4000, 1000>>, <<"RGBA", 1000, 4000>>, <<"RGB", 1, 49>>,
                   <<"RGB", 1000, 1>>, <<"L", MaxSmallDim, MaxSmallDim>>,
                   <<"P", 201, 200>>}}

\* lines 93-101: every mode ends as RGB, flattened onto white or converted
NormalizeMode(mode) ==
    IF mode \in {"RGBA", "LA", "P"} THEN "RGB"
    ELSE IF mode # "RGB" THEN "RGB"
    ELSE mode

Raised(error, decoded, target, resampled) ==
    [raised |-> TRUE, error |-> error, value |-> <<>>, decoded |-> decoded,
     target |-> target, resampled |-> resampled]

\* lines 110-125 of optimize_image: the resample step and the save, for a
\* decoded image and the computed target `new`
resize_and_save(image_data, config, new, resample, encode_fails) ==
    IF resample /\ (new[1] < 1 \/ new[2] < 1)
    THEN Raised("ValueError", TRUE, new, TRUE)
    ELSE IF encode_fails
    THEN Raised("OSError", TRUE, new, resample)
    ELSE [raised |-> FALSE, error |-> "none",
          value |-> [format |-> config.format, quality |-> config.quality,
                     mode |-> NormalizeMode(image_data.mode),
                     width |-> IF resample THEN new[1] ELSE image_data.width,
                     height |-> IF resample THEN new[2] ELSE image_data.height],
          decoded |-> TRUE, target |-> new, resampled |-> resample]

\* line 111: only resize if the image is larger than the target
needs_resize(image_data, new) ==
    new[1] < image_data.width \/ new[2] < image_data.height

resize_to(image_data, config, new, encode_fails) ==
    resize_and_save(image_data, config, new, needs_resize(image_data, new),
                    encode_fails)

(***************************************************************************)
(* ImageOptimizer.optimize_image.  encode_fails is the environment: the     *)
(* codec (convert, save) raising on this call.  Image.resize raises         *)
(* ValueError for a target width or height below 1.  The result records     *)
(* whether the source was decoded, the computed target, and whether the     *)
(* resample step ran.                                                       *)
(***************************************************************************)
optimize_image(image_data, size_name, encode_fails) ==
    IF size_name \notin DOMAIN SIZES
    THEN Raised("ValueError", FALSE, <<0, 0>>, FALSE)
    ELSE IF ~image_data.valid
    THEN Raised("UnidentifiedImageError", FALSE, <<0, 0>>, FALSE)
    ELSE resize_to(image_data, SIZES[size_name],
                   Resized(image_data.width, image_data.height,
                           SIZES[size_name].max_dimension),
                   encode_fails)

\* a dict with one more entry
Put(f, k, v) == [x \in DOMAIN f \cup {k} |-> IF x = k THEN v ELSE f[x]]

\* `except Exception` catches every error a library call raises here
ExceptionClasses ==
    {"ValueError", "UnidentifiedImageError", "OSError", "ClientError",
     "BotoCoreError", "ZeroDivisionError"}

\* the loop body of lines 139-144 without its try/except: the first failing
\* size leaves the loop
collect_uncaught(acc, size_name, r) ==
    [optimized |-> IF r.raised THEN acc.optimized
                   ELSE Put(acc.optimized, size_name, r.value),
     calls |-> Append(acc.calls, [size_name |-> size_name, result |-> r]),
     raised |-> r.raised,
     error |-> IF r.raised THEN r.error ELSE "none"]

\* lines 140-144: the try block of the loop, given what optimize_image did.
\* An error the except clause does not catch leaves the loop.
collect(acc, size_name, r) ==
    [optimized |-> IF r.raised THEN acc.optimized
                   ELSE Put(acc.optimized, size_name, r.value),
     calls |-> Append(acc.calls, [size_name |-> size_name, result |-> r]),
     raised |-> r.raised /\ r.error \notin ExceptionClasses,
     error |-> IF r.raised /\ r.error \notin ExceptionClasses
               THEN r.error ELSE "none"]

(***************************************************************************)
(* ImageOptimizer.optimize_all_sizes: the loop over SIZES.keys() from the   *)
(* i-th name on.  acc is [optimized, calls, raised, error]: the dict built   *)
(* so far, the optimize_image calls made, in order, and the error that left *)
(* the loop, if one did.                                                    *)
(***************************************************************************)
RECURSIVE optimize_all_loop(_, _, _, _)
optimize_all_loop(image_data, encode_fails, i, acc) ==
    IF i > Len(SizeNames) \/ acc.raised THEN acc
    ELSE optimize_all_loop(image_data, encode_fails, i + 1,
             collect(acc, SizeNames[i],
                     optimize_image(image_data, SizeNames[i],
                                    SizeNames[i] \in encode_fails)))

optimize_all_sizes(image_data, encode_fails) ==
    optimize_all_loop(image_data, encode_fails, 1,
                      [optimized |-> <<>>, calls |-> <<>>,
                       raised |-> FALSE, error |-> "none"])

(***************************************************************************)
(* Strings are sequences of text pieces; the separators "/" and "." are     *)
(* pieces of their own, and no other piece contains one.                    *)
(***************************************************************************)
KeyChars == {"a", "/", "."}

RECURSIVE SeqsUpTo(_, _)
SeqsUpTo(S, n) ==
    IF n = 0 THEN {<<>>}
    ELSE LET shorter == SeqsUpTo(S, n - 1)
         IN shorter \cup {Append(t, c) : t \in {u \in shorter : Len(u) = n - 1}, c \in S}

\* object keys: S3 keys are not empty
Keys == SeqsUpTo(KeyChars, MaxKeyLen) \ {<<>>}

Buckets == {"cam", "web"}

\* str.split(sep): the list of the parts between the separators
RECURSIVE Split(_, _)
Split(str, sep) ==
    IF str = <<>> THEN << <<>> >>
    ELSE LET rest == Split(Tail(str), sep)
         IN IF Head(str) = sep
            THEN << <<>> >> \o rest
            ELSE << <<Head(str)>> \o Head(rest) >> \o Tail(rest)

\* sep.join(parts)
RECURSIVE Join(_, _)
Join(parts, sep) ==
    IF parts = <<>> THEN <<>>
    ELSE IF Len(parts) = 1 THEN parts[1]
    ELSE parts[1] \o <<sep>> \o Join(Tail(parts), sep)

\* list[:-1] and list[-1]
AllButLast(list) == SubSeq(list, 1, Len(list) - 1)

Last(list) == list[Len(list)]

\* lines 172-178: the key an optimized size is stored under
optimized_key(original_key, size_name) ==
    LET base_path == Join(AllButLast(Split(original_key, "/")), "/")
        filename == Last(Split(original_key, "/"))
        filename_without_ext == Join(AllButLast(Split(filename, ".")), ".")
    IN base_path \o <<"/", "optimized", "/">> \o filename_without_ext
       \o <<"_", size_name, ".", "jpg">>

ExpiresIn == 604800

\* a path-style URL, which is not the one line 198 builds
public_url_path_style(bucket, key) ==
    [scheme |-> "static", text |-> <<"https://", "s3.amazonaws.com/", bucket, "/">> \o key,
     Bucket |-> bucket, Key |-> key, ExpiresIn |-> 0]

\* line 198: the static URL of a public object
public_url(bucket, key) ==
    [scheme |-> "static", text |-> <<"https://", bucket, ".s3.amazonaws.com/">> \o key,
     Bucket |-> bucket, Key |-> key, ExpiresIn |-> 0]

\* what the storage client's generate_presigned_url returns: a URL signed for
\* the bucket, key and expiry it was asked for
presigned_url(bucket, key, expires) ==
    [scheme |-> "presigned", text |-> <<>>, Bucket |-> bucket, Key |-> key,
     ExpiresIn |-> expires]

\* the storage-client calls, as logged: put_object, generate_presigned_url
\* and get_object
PutObject(bucket, key, body, acl, size_name, ok) ==
    [api |-> "put_object", Bucket |-> bucket, Key |-> key, Body |-> body,
     ContentType |-> "image/jpeg", CacheControl |-> "max-age=31536000",
     ACL |-> acl, ExpiresIn |-> 0, size_name |-> size_name, ok |-> ok,
     error |-> IF ok THEN "none" ELSE "ClientError"]

GeneratePresignedUrl(bucket, key, expires, size_name, ok) ==
    [api |-> "generate_presigned_url", Bucket |-> bucket, Key |-> key, Body |-> <<>>,
     ContentType |-> "none", CacheControl |-> "none",
     ACL |-> "none", ExpiresIn |-> expires, size_name |-> size_name, ok |-> ok,
     error |-> IF ok THEN "none" ELSE "BotoCoreError"]

GetObject(bucket, key, ok) ==
    [api |-> "get_object", Bucket |-> bucket, Key |-> key, Body |-> <<>>,
     ContentType |-> "none", CacheControl |-> "none",
     ACL |-> "none", ExpiresIn |-> 0, size_name |-> "none", ok |-> ok,
     error |-> IF ok THEN "none" ELSE "ClientError"]

\* the error of the try block of lines 188-207: that of put_object, or else
\* that of generate_presigned_url when it is called
upload_error(put, sign, make_public) ==
    IF ~put.ok THEN put.error
    ELSE IF ~make_public /\ ~sign.ok THEN sign.error
    ELSE "none"

\* lines 188-207 without the except clause of lines 210-211: the first
\* failing client call leaves the loop
upload_result_uncaught(acc, size_name, put, sign, make_public, url) ==
    [urls |-> IF upload_error(put, sign, make_public) = "none"
              THEN Put(acc.urls, size_name, url) ELSE acc.urls,
     s3 |-> IF put.ok /\ ~make_public
            THEN acc.s3 \o <<put, sign>> ELSE Append(acc.s3, put),
     raised |-> upload_error(put, sign, make_public) # "none",
     error |-> upload_error(put, sign, make_public)]

\* the try block of lines 188-211, given the outcome of the two client
\* calls: the URL is recorded once both went through; an error the except
\* clause catches is logged, any other leaves the loop
upload_result(acc, size_name, put, sign, make_public, url) ==
    [urls |-> IF upload_error(put, sign, make_public) = "none"
              THEN Put(acc.urls, size_name, url) ELSE acc.urls,
     s3 |-> IF put.ok /\ ~make_public
            THEN acc.s3 \o <<put, sign>> ELSE Append(acc.s3, put),
     raised |-> upload_error(put, sign, make_public)
                    \notin ExceptionClasses \cup {"none"},
     error |-> IF upload_error(put, sign, make_public)
                    \notin ExceptionClasses \cup {"none"}
               THEN upload_error(put, sign, make_public) ELSE "none"]

\* lines 176-211: one iteration of the upload loop.  acc is [urls, s3,
\* raised, error]: the URL dict built so far, the storage-client calls made,
\* in order, and the error that left the loop, if one did.
upload_one(bucket, original_key, size_name, image_bytes, make_public, put_fails, sign_fails, acc) ==
    upload_result(acc, size_name,
        PutObject(bucket, optimized_key(original_key, size_name), image_bytes,
                  IF make_public THEN "public-read" ELSE "none", size_name,
                  size_name \notin put_fails),
        GeneratePresignedUrl(bucket, optimized_key(original_key, size_name),
                             ExpiresIn, size_name, size_name \notin sign_fails),
        make_public,
        IF make_public
        THEN public_url(bucket, optimized_key(original_key, size_name))
        ELSE presigned_url(bucket, optimized_key(original_key, size_name),
                           ExpiresIn))

\* the loop over optimized_images.items(), whose order is that of SIZES
RECURSIVE upload_loop(_, _, _, _, _, _, _, _)
upload_loop(bucket, original_key, optimized_images, make_public, put_fails, sign_fails, i, acc) ==
    IF i > Len(SizeNames) \/ acc.raised THEN acc
    ELSE upload_loop(bucket, original_key, optimized_images, make_public,
                     put_fails, sign_fails, i + 1,
                     IF SizeNames[i] \in DOMAIN optimized_images
                     THEN upload_one(bucket, original_key, SizeNames[i],
                                     optimized_images[SizeNames[i]], make_public,
                                     put_fails, sign_fails, acc)
                     ELSE acc)

(***************************************************************************)
(* ImageOptimizer.upload_optimized_to_s3.  put_fails and sign_fails are     *)
(* the environment: the sizes whose put_object and generate_presigned_url   *)
(* calls raise.  Yields [urls, s3, raised, error]: the URL dict returned,   *)
(* the storage-client calls made, and the error raised, if one was.         *)
(***************************************************************************)
upload_optimized_to_s3(bucket, original_key, optimized_images, make_public, put_fails, sign_fails) ==
    upload_loop(bucket, original_key, optimized_images, make_public,
                put_fails, sign_fails, 1,
                [urls |-> <<>>, s3 |-> <<>>, raised |-> FALSE, error |-> "none"])

\* lines 244-255 of process_image_for_web, given the source and what
\* optimize_all_sizes did: line 246 divides by the length of the source for
\* every optimized size
log_and_upload(bucket, key, make_public, original_size, optimized, get, put_fails, sign_fails) ==
    IF optimized.raised
    THEN [raised |-> TRUE, error |-> optimized.error,
          up |-> [urls |-> <<>>, s3 |-> <<>>], calls |-> optimized.calls, s3 |-> get]
    ELSE IF DOMAIN optimized.optimized # {} /\ original_size = 0
    THEN [raised |-> TRUE, error |-> "ZeroDivisionError",
          up |-> [urls |-> <<>>, s3 |-> <<>>], calls |-> optimized.calls, s3 |-> get]
    ELSE [raised |-> FALSE, error |-> "none",
          up |-> upload_optimized_to_s3(bucket, key, optimized.optimized,
                                        make_public, put_fails, sign_fails),
          calls |-> optimized.calls, s3 |-> get]

\* the return at line 255, or the re-raise at line 259
with_urls(r) ==
    [raised |-> r.raised \/ (~r.raised /\ r.up.raised),
     error |-> IF r.raised THEN r.error
               ELSE IF r.up.raised THEN r.up.error ELSE "none",
     value |-> IF r.raised \/ r.up.raised THEN <<>> ELSE r.up.urls,
     calls |-> r.calls, s3 |-> r.s3 \o r.up.s3]

\* process_image_for_web with lines 257-259 logging the error and returning
\* an empty dict where the source re-raises
process_image_for_web_swallowing(bucket, key, make_public, fetch_fails, fetched, encode_fails, put_fails, sign_fails) ==
    IF fetch_fails
    THEN [raised |-> FALSE, error |-> "none",
          value |-> <<>>, calls |-> <<>>, s3 |-> <<GetObject(bucket, key, FALSE)>>]
    ELSE with_urls(log_and_upload(bucket, key, make_public, fetched.size,
                                  optimize_all_sizes(fetched, encode_fails),
                                  <<GetObject(bucket, key, TRUE)>>,
                                  put_fails, sign_fails))

(***************************************************************************)
(* ImageOptimizer.process_image_for_web.  fetch_fails and fetched are the   *)
(* environment: whether get_object or Body.read() raises, and the bytes     *)
(* read otherwise.  Yields [raised, error, value, calls, s3].               *)
(***************************************************************************)
process_image_for_web(bucket, key, make_public, fetch_fails, fetched, encode_fails, put_fails, sign_fails) ==
    IF fetch_fails
    THEN [raised |-> TRUE, error |-> GetObject(bucket, key, FALSE).error,
          value |-> <<>>, calls |-> <<>>, s3 |-> <<GetObject(bucket, key, FALSE)>>]
    ELSE with_urls(log_and_upload(bucket, key, make_public, fetched.size,
                                  optimize_all_sizes(fetched, encode_fails),
                                  <<GetObject(bucket, key, TRUE)>>,
                                  put_fails, sign_fails))

(***************************************************************************)
(* State: the optimizer holds nothing but its storage client, so the state  *)
(* is the call in progress and what it did.                                 *)
(*   op     the public method last called, "idle" between calls             *)
(*   args   its arguments                                                   *)
(*   ret    [raised, error, value]: whether it raised, and its return value *)
(*   calls  the optimize_image calls it made, in order, with their results  *)
(*   s3     the storage-client calls it made, in order, with their outcome  *)
(***************************************************************************)
VARIABLES op, args, ret, calls, s3

vars == <<op, args, ret, calls, s3>>

NoArgs == [none |-> TRUE]

NoRet == [raised |-> FALSE, error |-> "none", value |-> <<>>]

Outcome(r) == [raised |-> r.raised, error |-> r.error, value |-> r.value]

Init ==
    /\ op = "idle"
    /\ args = NoArgs
    /\ ret = NoRet
    /\ calls = <<>>
    /\ s3 = <<>>

\* the state after a call: what it was, what it returned or raised, and the
\* calls it made
Called(name, arguments, outcome, optimize_calls, s3_calls) ==
    /\ op' = name
    /\ args' = arguments
    /\ ret' = outcome
    /\ calls' = optimize_calls
    /\ s3' = s3_calls

OptimizeImageDone(image_data, size_name, r) ==
    Called("optimize_image", [image_data |-> image_data, size_name |-> size_name],
           Outcome(r), <<[size_name |-> size_name, result |-> r]>>, <<>>)

OptimizeAllSizesDone(image_data, acc) ==
    Called("optimize_all_sizes", [image_data |-> image_data],
           [raised |-> acc.raised, error |-> acc.error,
            value |-> IF acc.raised THEN <<>> ELSE acc.optimized],
           acc.calls, <<>>)

UploadDone(arguments, acc) ==
    Called("upload_optimized_to_s3", arguments,
           [raised |-> acc.raised, error |-> acc.error,
            value |-> IF acc.raised THEN <<>> ELSE acc.urls],
           <<>>, acc.s3)

ProcessDone(arguments, r) ==
    Called("process_image_for_web", arguments, Outcome(r), r.calls, r.s3)

\* a caller computes resize dimensions
CalculateResizeDimensions ==
    /\ op = "idle"
    /\ \E w \in Dims, h \in Dims, c \in Caps :
         Called("calculate_resize_dimensions",
                [original_width |-> w, original_height |-> h, max_dimension |-> c],
                [raised |-> FALSE, error |-> "none", value |-> Resized(w, h, c)],
                <<>>, <<>>)

\* a caller optimizes one size
OptimizeImage ==
    /\ op = "idle"
    /\ \E image_data \in SourceImages, size_name \in Profiles \cup {"unknown"},
          encode_fails \in BOOLEAN :
         OptimizeImageDone(image_data, size_name,
                           optimize_image(image_data, size_name, encode_fails))

\* a caller optimizes all sizes
OptimizeAllSizes ==
    /\ op = "idle"
    /\ \E image_data \in PipelineImages, encode_fails \in SUBSET Profiles :
         OptimizeAllSizesDone(image_data,
                              optimize_all_sizes(image_data, encode_fails))

\* the encoded bytes a caller hands to the upload
SampleBytes(size_name) ==
    [format |-> "JPEG", quality |-> SIZES[size_name].quality, mode |-> "RGB",
     width |-> 1, height |-> 1]

\* a caller uploads a result set
UploadOptimizedToS3 ==
    /\ op = "idle"
    /\ \E bucket \in Buckets, original_key \in Keys, sizes \in SUBSET Profiles,
          make_public \in BOOLEAN :
       \E put_fails \in SUBSET sizes :
       \E sign_fails \in SUBSET (IF make_public THEN {} ELSE sizes \ put_fails) :
         UploadDone([bucket |-> bucket, original_key |-> original_key,
                     optimized_images |-> [n \in sizes |-> SampleBytes(n)],
                     make_public |-> make_public],
                    upload_optimized_to_s3(bucket, original_key,
                                           [n \in sizes |-> SampleBytes(n)],
                                           make_public, put_fails, sign_fails))

\* the keys the whole pipeline is run on
PipelineKeys ==
    {<<"a", "/", "a", ".", "a">>, <<"a", "/", "a">>, <<"a", ".", "a">>}

\* a caller runs the whole pipeline
ProcessImageForWeb ==
    /\ op = "idle"
    /\ \E bucket \in Buckets, key \in PipelineKeys, make_public \in BOOLEAN,
          fetch_fails \in BOOLEAN :
       \E fetched \in IF fetch_fails THEN {NoImage(0)} ELSE PipelineImages :
       \E encode_fails \in SUBSET (IF fetch_fails THEN {} ELSE Profiles) :
       \E put_fails \in SUBSET (IF fetch_fails THEN {} ELSE Profiles \ encode_fails) :
       \E sign_fails \in SUBSET (IF fetch_fails \/ make_public THEN {}
                                 ELSE (Profiles \ encode_fails) \ put_fails) :
         ProcessDone([bucket |-> bucket, key |-> key, make_public |-> make_public],
                     process_image_for_web(bucket, key, make_public, fetch_fails,
                                           fetched, encode_fails, put_fails,
                                           sign_fails))

\* the call returns to its caller
Return ==
    /\ op # "idle"
    /\ op' = "idle"
    /\ args' = NoArgs
    /\ ret' = NoRet
    /\ calls' = <<>>
    /\ s3' = <<>>

Next ==
    \/ CalculateResizeDimensions
    \/ OptimizeImage
    \/ OptimizeAllSizes
    \/ UploadOptimizedToS3
    \/ ProcessImageForWeb
    \/ Return

Spec == Init /\ [][Next]_vars

(***************************************************************************)
(* What the last call did, read off the logs.                               *)
(***************************************************************************)
PutCalls == {i \in DOMAIN s3 : s3[i].api = "put_object"}

SignCalls == {i \in DOMAIN s3 : s3[i].api = "generate_presigned_url"}

\* the sizes whose optimize_image call raised
FailedSizes == {calls[i].size_name : i \in {j \in DOMAIN calls : calls[j].result.raised}}

\* the sizes for which put_object stored an object
StoredSizes == {s3[i].size_name : i \in {j \in PutCalls : s3[j].ok}}

\* the sizes for which generate_presigned_url issued a URL
SignedSizes == {s3[i].size_name : i \in {j \in SignCalls : s3[j].ok}}

(***************************************************************************)
(* Properties.                                                              *)
(***************************************************************************)

\* C1: optimize_all_sizes never raises: whichever profiles fail to encode, it
\* calls optimize_image once for each of the three profiles, and the keys of
\* the mapping it returns are exactly the profiles whose call did not fail.
C1_OptimizeAllIsolatesFailures ==
    op = "optimize_all_sizes" =>
        /\ ~ret.raised
        /\ [i \in DOMAIN calls |-> calls[i].size_name] = SizeNames
        /\ DOMAIN ret.value = Profiles \ FailedSizes

\* one profile fails to encode and the other two are returned
C1_Witness ==
    /\ op = "optimize_all_sizes"
    /\ Cardinality(FailedSizes) = 1
    /\ Cardinality(DOMAIN ret.value) = 2

\* C2: upload_optimized_to_s3 never raises on a storage failure: put_object
\* is attempted for every profile of the input, a profile whose write failed
\* has no URL, and a profile whose write and URL generation succeeded has one.
C2_UploadIsolatesFailures ==
    op = "upload_optimized_to_s3" =>
        /\ ~ret.raised
        /\ {s3[i].size_name : i \in PutCalls} = DOMAIN args.optimized_images
        /\ \A i \in PutCalls : ~s3[i].ok => s3[i].size_name \notin DOMAIN ret.value
        /\ \A n \in StoredSizes :
              (args.make_public \/ n \in SignedSizes) => n \in DOMAIN ret.value

\* a write fails, a later one succeeds and its URL is returned
C2_Witness ==
    /\ op = "upload_optimized_to_s3"
    /\ \E i, j \in PutCalls :
          /\ i < j
          /\ ~s3[i].ok
          /\ s3[j].ok
          /\ s3[j].size_name \in DOMAIN ret.value

\* C3: process_image_for_web raises exactly when the fetch fails: a failed
\* fetch is followed by no encode and no storage write, and after a fetch
\* that succeeded any encode and upload failures leave it returning.
C3_ProcessRaisesIffFetchFails ==
    op = "process_image_for_web" =>
        /\ s3[1].api = "get_object"
        /\ ret.raised <=> ~s3[1].ok
        /\ ~s3[1].ok => calls = <<>> /\ Len(s3) = 1

\* the fetch succeeds, one profile fails to encode, another fails to upload,
\* and the call returns the one URL left
C3_Witness ==
    /\ op = "process_image_for_web"
    /\ s3[1].ok
    /\ ~ret.raised
    /\ FailedSizes # {}
    /\ \E i \in PutCalls : ~s3[i].ok
    /\ Cardinality(DOMAIN ret.value) = 1

\* C4: in an upload, a public write carries the public-read ACL and its URL
\* is https://{bucket}.s3.amazonaws.com/{key written}; a private write
\* carries no ACL and its URL is the one signed for the same bucket and key
\* with an expiry of 604800 seconds.
C4_VisibilityAndUrls ==
    op = "upload_optimized_to_s3" =>
        /\ \A i \in PutCalls :
              s3[i].ACL = IF args.make_public THEN "public-read" ELSE "none"
        /\ \A n \in DOMAIN ret.value : \E i \in PutCalls :
              /\ s3[i].size_name = n
              /\ s3[i].Bucket = args.bucket
              /\ IF args.make_public
                 THEN /\ ret.value[n].scheme = "static"
                      /\ ret.value[n].text =
                            <<"https://", args.bucket, ".s3.amazonaws.com/">> \o s3[i].Key
                 ELSE /\ ret.value[n].scheme = "presigned"
                      /\ ret.value[n].Bucket = args.bucket
                      /\ ret.value[n].Key = s3[i].Key
                      /\ ret.value[n].ExpiresIn = 604800
                      /\ \E j \in SignCalls :
                            /\ s3[j].Bucket = args.bucket
                            /\ s3[j].Key = s3[i].Key
                            /\ s3[j].ExpiresIn = 604800

\* a public upload of all three profiles returns three URLs
C4_Witness ==
    /\ op = "upload_optimized_to_s3"
    /\ args.make_public
    /\ DOMAIN ret.value = Profiles

\* the key the claim C5 describes: the directory part of the original key,
\* optimized/, the filename without its extension, _{profile}.jpg
LastIndexOf(str, piece) ==
    IF \E i \in DOMAIN str : str[i] = piece
    THEN CHOOSE i \in DOMAIN str :
            str[i] = piece /\ \A j \in DOMAIN str : str[j] = piece => j <= i
    ELSE 0

Stem(filename) ==
    IF LastIndexOf(filename, ".") = 0 THEN filename
    ELSE SubSeq(filename, 1, LastIndexOf(filename, ".") - 1)

DescribedKey(key, profile) ==
    SubSeq(key, 1, LastIndexOf(key, "/")) \o <<"optimized", "/">>
    \o Stem(SubSeq(key, LastIndexOf(key, "/") + 1, Len(key)))
    \o <<"_", profile, ".", "jpg">>

\* C5: for every original key, with or without a directory part and with or
\* without an extension, the key a profile is written to is the original key
\* with optimized/ inserted before the filename, the extension dropped and
\* _{profile}.jpg appended.
C5_KeyDerivation ==
    op = "upload_optimized_to_s3" =>
        \A i \in PutCalls : s3[i].Key = DescribedKey(args.original_key, s3[i].size_name)

\* C6: calculate_resize_dimensions returns dimensions whose longer edge is
\* min(max(w, h), c), and returns (w, h) itself when max(w, h) <= c.
C6_LongerEdgeClamped ==
    op = "calculate_resize_dimensions" =>
        /\ Max(ret.value[1], ret.value[2])
             = Min(Max(args.original_width, args.original_height), args.max_dimension)
        /\ Max(args.original_width, args.original_height) <= args.max_dimension
             => ret.value = <<args.original_width, args.original_height>>

\* the caps the claim C7 names
NamedCap == [thumbnail |-> 200, preview |-> 800, full |-> 1920]

\* C7: for a source that decodes, of any positive width and height, and each
\* of the three profiles, optimize_image returns an image (the codec not
\* failing) whose longest edge is at most the profile's cap.
C7_OptimizeWithinCap ==
    (/\ op = "optimize_image"
     /\ args.image_data.valid
     /\ args.size_name \in Profiles
     /\ calls[1].result.error # "OSError")
    => /\ ~ret.raised
       /\ Max(ret.value.width, ret.value.height) <= NamedCap[args.size_name]

\* C8: optimize_image resamples only when the computed target is strictly
\* smaller than the decoded image in both width and height; otherwise the
\* resample is skipped and the output has the dimensions of the input.
C8_ResampleOnlyWhenSmallerInBoth ==
    (op = "optimize_image" /\ calls[1].result.decoded) =>
        /\ calls[1].result.resampled =>
              /\ calls[1].result.target[1] < args.image_data.width
              /\ calls[1].result.target[2] < args.image_data.height
        /\ ~(/\ calls[1].result.target[1] < args.image_data.width
              /\ calls[1].result.target[2] < args.image_data.height)
             => /\ ~calls[1].result.resampled
                /\ ~ret.raised =>
                      /\ ret.value.width = args.image_data.width
                      /\ ret.value.height = args.image_data.height

\* C9: for all positive dimensions and every positive cap, both dimensions
\* calculate_resize_dimensions returns are at least 1.
C9_DimensionsAtLeastOne ==
    op = "calculate_resize_dimensions" =>
        ret.value[1] >= 1 /\ ret.value[2] >= 1

\* C10: when upload_optimized_to_s3 returns, a profile has a URL in the
\* result exactly when an object was stored for it during the call.
C10_UrlIffStored ==
    op = "upload_optimized_to_s3" =>
        \A n \in Profiles : n \in DOMAIN ret.value <=> n \in StoredSizes

====
